---- MODULE Spec2Model ----
(***************************************************************************)
(* Model of the request/response pipeline of src/src/main.rs: the router   *)
(* built in main, proxy_handler, return_configured_models and the          *)
(* ProxyError -> response mapping.                                         *)
(*                                                                         *)
(* Byte strings that the code parses (request bodies) are sequences of     *)
(* lexical tokens, whitespace included, so that serde_json's parse and     *)
(* re-serialisation are real conversions.  Header values are sequences of  *)
(* bytes, so that HeaderValue::to_str can fail.  Paths are sequences of    *)
(* pieces ("/" or a segment).                                              *)
(***************************************************************************)
EXTENDS Integers, Sequences, FiniteSets

\* ------------------------------------------------------------------ bounds
MaxModels == 2        \* entries in the configured registry
MaxHeaders == 2       \* headers of an inbound request
MaxRespHeaders == 2   \* headers of an upstream response

\* ------------------------------------------------------- sequence helpers
RECURSIVE SeqsUpTo(_, _)
SeqsUpTo(S, n) ==
    IF n = 0 THEN {<<>>}
    ELSE LET shorter == SeqsUpTo(S, n - 1)
         IN  shorter \cup {Append(s, x) : s \in shorter, x \in S}


\* ============================================================== JSON text
\* One lexical token of a body: punctuation, whitespace, a string, a number,
\* a literal (true/false/null) or a byte that starts no JSON token.
Tok(k, s) == [k |-> k, s |-> s]
P(s) == Tok("p", s)
WS == Tok("ws", " ")
S(s) == Tok("str", s)
N(s) == Tok("num", s)
L(s) == Tok("lit", s)
BAD == Tok("bad", "#")

\* serde_json::Value.  kids holds the members of an object (k = key) or the
\* elements of an array (k = ""), and is empty for a scalar.
Scalar(t, s) == [t |-> t, s |-> s, kids |-> <<>>]
Obj(kids) == [t |-> "obj", s |-> "", kids |-> kids]
Arr(kids) == [t |-> "arr", s |-> "", kids |-> kids]
Null == Scalar("lit", "null")
Member(k, v) == [k |-> k, v |-> v]

is_object(v) == v.t = "obj"

\* String's Ord on the keys that occur: serde_json::Map is a BTreeMap, so the
\* members of an object are kept in key order.
KeyOrder ==
    << "data", "enable_thinking", "id", "model", "object", "owned_by",
       "reasoning_effort", "stream", "thinking", "type" >>
Rank(k) == CHOOSE i \in 1..Len(KeyOrder) : KeyOrder[i] = k

\* Map::insert: replaces the value of a key that is present, else adds the key
\* at its place in key order.
MapInsert(kids, key, val) ==
    IF \E i \in 1..Len(kids) : kids[i].k = key
    THEN [i \in 1..Len(kids) |->
            IF kids[i].k = key THEN Member(key, val) ELSE kids[i]]
    ELSE SelectSeq(kids, LAMBDA e : Rank(e.k) < Rank(key))
         \o << Member(key, val) >>
         \o SelectSeq(kids, LAMBDA e : Rank(e.k) > Rank(key))

\* Map::get
MapGet(kids, key) ==
    IF \E i \in 1..Len(kids) : kids[i].k = key
    THEN [some |-> TRUE, v |-> kids[CHOOSE i \in 1..Len(kids) : kids[i].k = key].v]
    ELSE [some |-> FALSE, v |-> Null]

RECURSIVE SkipWs(_, _)
SkipWs(t, i) == IF i <= Len(t) /\ t[i].k = "ws" THEN SkipWs(t, i + 1) ELSE i

ParseFail == [ok |-> FALSE, v |-> Null, next |-> 0]
ParseOk(v, next) == [ok |-> TRUE, v |-> v, next |-> next]

\* Recursive descent over the tokens from position i: a value, the members of
\* an object after "{", the elements of an array after "[".
RECURSIVE ParseValue(_, _), ParseMembers(_, _, _), ParseElements(_, _, _)
ParseValue(t, i0) ==
    LET i == SkipWs(t, i0) IN
    IF i > Len(t) THEN ParseFail
    ELSE IF t[i].k \in {"str", "num", "lit"}
         THEN ParseOk(Scalar(t[i].k, t[i].s), i + 1)
    ELSE IF t[i] = P("{")
         THEN LET j == SkipWs(t, i + 1) IN
              IF j <= Len(t) /\ t[j] = P("}") THEN ParseOk(Obj(<<>>), j + 1)
              ELSE ParseMembers(t, j, <<>>)
    ELSE IF t[i] = P("[")
         THEN LET j == SkipWs(t, i + 1) IN
              IF j <= Len(t) /\ t[j] = P("]") THEN ParseOk(Arr(<<>>), j + 1)
              ELSE ParseElements(t, j, <<>>)
    ELSE ParseFail

ParseMembers(t, i, acc) ==
    IF i > Len(t) \/ t[i].k # "str" THEN ParseFail
    ELSE LET c == SkipWs(t, i + 1) IN
         IF c > Len(t) \/ t[c] # P(":") THEN ParseFail
         ELSE LET r == ParseValue(t, c + 1) IN
              IF ~r.ok THEN ParseFail
              ELSE LET acc2 == MapInsert(acc, t[i].s, r.v)
                       d == SkipWs(t, r.next)
                   IN  IF d > Len(t) THEN ParseFail
                       ELSE IF t[d] = P("}") THEN ParseOk(Obj(acc2), d + 1)
                       ELSE IF t[d] = P(",")
                            THEN ParseMembers(t, SkipWs(t, d + 1), acc2)
                       ELSE ParseFail

ParseElements(t, i, acc) ==
    LET r == ParseValue(t, i) IN
    IF ~r.ok THEN ParseFail
    ELSE LET acc2 == Append(acc, Member("", r.v))
             d == SkipWs(t, r.next)
         IN  IF d > Len(t) THEN ParseFail
             ELSE IF t[d] = P("]") THEN ParseOk(Arr(acc2), d + 1)
             ELSE IF t[d] = P(",") THEN ParseElements(t, d + 1, acc2)
             ELSE ParseFail

\* serde_json::from_slice::<Value>: one value, then only whitespace.
from_slice(t) ==
    LET r == ParseValue(t, 1) IN
    IF r.ok /\ SkipWs(t, r.next) > Len(t) THEN [ok |-> TRUE, v |-> r.v]
    ELSE [ok |-> FALSE, v |-> Null]

\* serde_json::to_vec / to_string: the compact form, no whitespace.
RECURSIVE to_vec(_), WriteMembers(_, _), WriteElements(_, _)
to_vec(v) ==
    IF v.t = "obj" THEN <<P("{")>> \o WriteMembers(v.kids, 1) \o <<P("}")>>
    ELSE IF v.t = "arr" THEN <<P("[")>> \o WriteElements(v.kids, 1) \o <<P("]")>>
    ELSE << Tok(v.t, v.s) >>

WriteMembers(kids, i) ==
    IF i > Len(kids) THEN <<>>
    ELSE (IF i > 1 THEN <<P(",")>> ELSE <<>>)
         \o <<S(kids[i].k), P(":")>> \o to_vec(kids[i].v)
         \o WriteMembers(kids, i + 1)

WriteElements(kids, i) ==
    IF i > Len(kids) THEN <<>>
    ELSE (IF i > 1 THEN <<P(",")>> ELSE <<>>)
         \o to_vec(kids[i].v) \o WriteElements(kids, i + 1)

\* ================================================================ headers
Hdr(n, v) == [name |-> n, value |-> v]

\* HeaderName is lower case however the name was spelled on the wire.
Lower(n) ==
    CASE n = "Host" -> "host"
      [] n = "AUTHORIZATION" -> "authorization"
      [] n = "Authorization" -> "authorization"
      [] n = "Content-Length" -> "content-length"
      [] n = "Content-Type" -> "content-type"
      [] n = "X-Trace" -> "x-trace"
      [] OTHER -> n

\* HeaderMap::iter: the names in order of first appearance, each with all of
\* its values.
RECURSIVE iter(_)
iter(hs) ==
    IF hs = <<>> THEN <<>>
    ELSE SelectSeq(hs, LAMBDA h : h.name = hs[1].name)
         \o iter(SelectSeq(hs, LAMBDA h : h.name # hs[1].name))

\* The HeaderMap extracted from the headers as received.
HeaderMapOf(raw) == iter([i \in 1..Len(raw) |-> Hdr(Lower(raw[i].name), raw[i].value)])

\* HeaderMap::insert: the name keeps one value, the one inserted last.
insert(hs, n, v) ==
    IF \E i \in 1..Len(hs) : hs[i].name = n
    THEN [i \in 1..Len(hs) |-> IF hs[i].name = n THEN Hdr(n, v) ELSE hs[i]]
    ELSE Append(hs, Hdr(n, v))

\* HeaderValue::to_str succeeds on visible ASCII (and tab) only.
to_str_ok(v) == \A i \in 1..Len(v) : v[i] = 9 \/ (v[i] >= 32 /\ v[i] < 127)

\* value.to_str().unwrap_or_default()
to_str_or_default(v) == IF to_str_ok(v) THEN v ELSE <<>>

Bearer == <<66, 101, 97, 114, 101, 114, 32>>                    \* "Bearer "
ApplicationJson ==                                              \* "application/json"
    <<97, 112, 112, 108, 105, 99, 97, 116, 105, 111, 110, 47, 106, 115, 111, 110>>

\* ========================================================== configuration
openai_api_key == <<115, 107>>                                  \* "sk"
openai_api_base == <<"https://upstream", "/">>

BAD_GATEWAY == 502
INTERNAL_SERVER_ERROR == 500
NOT_FOUND == 404
OK == 200
METHOD_NOT_ALLOWED == 405

ModelInfo(id, enable_thinking, reasoning_effort) ==
    [id |-> id, object |-> "model", owned_by |-> "org",
     enable_thinking |-> enable_thinking, reasoning_effort |-> reasoning_effort]

\* Entries a configuration may declare; ids may repeat.
ModelPool ==
    { ModelInfo("m1", TRUE, "high"), ModelInfo("m1", FALSE, "medium"),
      ModelInfo("m2", TRUE, "low") }

Registries == SeqsUpTo(ModelPool, MaxModels)

\* ======================================================= request transformer
\* path.trim_start_matches('/')
trim_start(p) ==
    IF \E i \in 1..Len(p) : p[i] # "/"
    THEN SubSeq(p, CHOOSE i \in 1..Len(p) : p[i] # "/" /\ \A j \in 1..(i - 1) : p[j] = "/",
                Len(p))
    ELSE <<>>

\* base.trim_end_matches('/')
trim_end(p) ==
    IF \E i \in 1..Len(p) : p[i] # "/"
    THEN SubSeq(p, 1, CHOOSE i \in 1..Len(p) : p[i] # "/" /\ \A j \in (i + 1)..Len(p) : p[j] = "/")
    ELSE <<>>

openai_url(p, query) ==
    IF query = <<>> THEN trim_end(openai_api_base) \o <<"/">> \o p
    ELSE trim_end(openai_api_base) \o <<"/">> \o p \o <<"?">> \o query

\* find, were it to return the last entry of that id: C1 fails with it.
find_last(models, model_name) ==
    IF \E i \in 1..Len(models) : models[i].id = model_name
    THEN [some |-> TRUE,
          m |-> models[CHOOSE i \in 1..Len(models) :
                          /\ models[i].id = model_name
                          /\ \A j \in (i + 1)..Len(models) : models[j].id # model_name]]
    ELSE [some |-> FALSE, m |-> [id |-> "", object |-> "", owned_by |-> "",
                                 enable_thinking |-> FALSE, reasoning_effort |-> ""]]

\* state.available_models.iter().find(|m| m.id == model_name)
find(models, model_name) ==
    IF \E i \in 1..Len(models) : models[i].id = model_name
    THEN [some |-> TRUE,
          m |-> models[CHOOSE i \in 1..Len(models) :
                          /\ models[i].id = model_name
                          /\ \A j \in 1..(i - 1) : models[j].id # model_name]]
    ELSE [some |-> FALSE, m |-> ModelInfo("", FALSE, "")]

ThinkingEnabled == Obj(<< Member("type", Scalar("str", "enabled")) >>)

\* The two inserts made for a model whose thinking is enabled.
insert_thinking(kids, model_config) ==
    MapInsert(MapInsert(kids, "thinking", ThinkingEnabled),
              "reasoning_effort", Scalar("str", model_config.reasoning_effort))

\* The object after the block that looks the model up.
mutate_object(json, models) ==
    LET model == MapGet(json.kids, "model") IN
    IF model.some /\ model.v.t = "str"
    THEN LET model_config == find(models, model.v.s) IN
         IF model_config.some /\ model_config.m.enable_thinking
         THEN Obj(insert_thinking(json.kids, model_config.m))
         ELSE json
    ELSE json

\* modified_body, were a body that does not parse sent as an empty one: C7
\* fails with it.
modified_body_dropping(body_bytes, models) ==
    IF body_bytes # <<>>
    THEN LET parsed == from_slice(body_bytes) IN
         IF parsed.ok
         THEN to_vec(IF is_object(parsed.v) THEN mutate_object(parsed.v, models)
                     ELSE parsed.v)
         ELSE <<>>
    ELSE body_bytes

modified_body(body_bytes, models) ==
    IF body_bytes # <<>>
    THEN LET parsed == from_slice(body_bytes) IN
         IF parsed.ok
         THEN to_vec(IF is_object(parsed.v) THEN mutate_object(parsed.v, models)
                     ELSE parsed.v)
         ELSE body_bytes
    ELSE body_bytes

reqwest_method(method) ==
    IF method \in {"GET", "POST", "PUT", "DELETE", "PATCH", "HEAD", "OPTIONS"}
    THEN method
    ELSE "POST"

\* skipped, were authorization left out of the test: C2 fails with it.
skipped_without_authorization(name_str) ==
    name_str = "host" \/ name_str = "content-length"

\* Names the forwarding loop skips.
skipped(name_str) ==
    name_str = "host" \/ name_str = "authorization" \/ name_str = "content-length"

\* RequestBuilder::header appends; the loop runs over headers.iter().
RECURSIVE forward_headers(_, _)
forward_headers(builder, hs) ==
    IF hs = <<>> THEN builder
    ELSE forward_headers(
            IF ~skipped(hs[1].name)
            THEN Append(builder, Hdr(hs[1].name, to_str_or_default(hs[1].value)))
            ELSE builder,
            Tail(hs))

request_builder(headers) ==
    forward_headers(
        << Hdr(Lower("Authorization"), Bearer \o openai_api_key),
           Hdr(Lower("Content-Type"), ApplicationJson) >>,
        HeaderMapOf(headers))

\* ==================================================== response post-processor
\* StatusCode::from_u16(..).unwrap_or(INTERNAL_SERVER_ERROR)
status_from_u16(n) == IF n >= 100 /\ n < 1000 THEN n ELSE INTERNAL_SERVER_ERROR

ends_with_models(p) ==
    Len(p) >= 2 /\ p[Len(p)] = "models" /\ p[Len(p) - 1] = "/"

RECURSIVE copy_response_headers(_, _)
copy_response_headers(acc, hs) ==
    IF hs = <<>> THEN acc
    ELSE copy_response_headers(
            IF hs[1].name # "content-length" /\ hs[1].name # "transfer-encoding"
            THEN insert(acc, hs[1].name, to_str_or_default(hs[1].value))
            ELSE acc,
            Tail(hs))

response_headers(upstream_headers) == copy_response_headers(<<>>, iter(upstream_headers))

Response(status, headers, body) == [status |-> status, headers |-> headers, body |-> body]

\* ModelInfo's derived Serialize, into a Value.
model_value(m) ==
    Obj(MapInsert(MapInsert(MapInsert(MapInsert(MapInsert(<<>>,
        "id", Scalar("str", m.id)),
        "object", Scalar("str", m.object)),
        "owned_by", Scalar("str", m.owned_by)),
        "enable_thinking", Scalar("lit", IF m.enable_thinking THEN "true" ELSE "false")),
        "reasoning_effort", Scalar("str", m.reasoning_effort)))

\* return_configured_models, were the data array filled back to front: C4
\* fails with it.
return_configured_models_reversed(models) ==
    LET models_response ==
            Obj(MapInsert(MapInsert(<<>>,
                "object", Scalar("str", "list")),
                "data", Arr([i \in 1..Len(models) |->
                                Member("", model_value(models[Len(models) + 1 - i]))])))
    IN  Response(OK, << Hdr("content-type", ApplicationJson) >>, to_vec(models_response))

return_configured_models(models) ==
    LET models_response ==
            Obj(MapInsert(MapInsert(<<>>,
                "object", Scalar("str", "list")),
                "data", Arr([i \in 1..Len(models) |-> Member("", model_value(models[i]))])))
    IN  Response(OK, << Hdr("content-type", ApplicationJson) >>, to_vec(models_response))

\* into_response, were every variant a gateway error: C8 fails with it.
into_response_all_gateway(e) ==
    Response(BAD_GATEWAY, <<>>, << Tok("txt", "Proxy error: ") >>)

\* ProxyError::into_response
into_response(e) ==
    Response(CASE e = "RequestError" -> BAD_GATEWAY
               [] e = "ResponseError" -> BAD_GATEWAY
               [] e = "BodyReadError" -> INTERNAL_SERVER_ERROR,
             <<>>, << Tok("txt", "Proxy error: ") >>)

\* ================================================================= inputs
Methods == {"GET", "POST", "PUT", "DELETE", "PATCH", "HEAD", "OPTIONS", "PURGE"}

ModelsPath == <<"/", "v3", "/", "models">>
ChatPath == <<"/", "v3", "/", "chat", "/", "completions">>
Paths == {ModelsPath, ChatPath, <<"/", "v3", "/", "xmodels">>}

Queries == {<<>>, <<"limit=1">>}

\* Headers as a client may send them: the three names the handler skips, in
\* several spellings, a Content-Type, and a header whose value is or is not
\* visible ASCII.
HeaderPool ==
    { Hdr("Host", <<104>>),
      Hdr("AUTHORIZATION", Bearer \o <<99>>),
      Hdr("Content-Length", <<49>>),
      Hdr("Content-Type", <<116>>),
      Hdr("X-Trace", <<97>>),
      Hdr("X-Trace", <<200>>) }

HeaderLists == SeqsUpTo(HeaderPool, MaxHeaders)

\* The text of an object: members in the order given, with or without
\* whitespace after ":" and ",".
RECURSIVE WriteText(_, _, _)
WriteText(members, i, spaced) ==
    IF i > Len(members) THEN <<>>
    ELSE (IF i > 1 THEN <<P(",")>> \o (IF spaced THEN <<WS>> ELSE <<>>) ELSE <<>>)
         \o <<S(members[i][1]), P(":")>> \o (IF spaced THEN <<WS>> ELSE <<>>)
         \o members[i][2]
         \o WriteText(members, i + 1, spaced)

ObjectText(members, spaced) ==
    <<P("{")>> \o WriteText(members, 1, spaced) \o <<P("}")>>

ModelMembers ==
    { <<>>,
      << <<"model", <<S("m1")>> >> >>,
      << <<"model", <<S("m2")>> >> >>,
      << <<"model", <<S("zz")>> >> >>,
      << <<"model", <<N("1")>> >> >>,
      << <<"model", <<S("m2")>> >>, <<"model", <<S("m1")>> >> >> }

PriorMembers ==
    { <<>>,
      << <<"thinking", ObjectText(<< <<"type", <<S("disabled")>> >> >>, TRUE)>>,
         <<"reasoning_effort", <<S("none")>> >> >> }

OtherMembers == { <<>>, << <<"stream", <<L("true")>> >> >> }

ObjectBodies ==
    { ObjectText(prior \o model \o other, spaced) :
        prior \in PriorMembers, model \in ModelMembers,
        other \in OtherMembers, spaced \in BOOLEAN }

ValueBodies ==
    { <<P("["), N("1"), P(","), WS, S("m1"), P("]")>>,
      <<P("["), N("1"), P(","), S("m1"), P("]")>>,
      <<P("["), P("]")>>,
      <<S("m1")>>, <<WS, N("1"), WS>>, <<L("null")>>, <<L("true")>> }

MalformedBodies ==
    { <<P("{"), S("model"), P(":"), S("m1")>>,
      <<P("{"), S("model"), P(":"), S("m1"), P(","), P("}")>>,
      <<P("{"), S("model"), P(":"), S("m1"), P("}"), WS, BAD>>,
      <<P("["), N("1"), P(","), P("]")>>,
      <<WS>>, <<BAD>> }

Bodies == {<<>>} \cup ObjectBodies \cup ValueBodies \cup MalformedBodies

Request(method, p, query, headers, body) ==
    [method |-> method, path |-> p, query |-> query, headers |-> headers, body |-> body]
NoRequest == Request("", <<>>, <<>>, <<>>, <<>>)

\* The handler treats the request line, the headers and the body separately,
\* so the requests vary one of them at a time.
Requests ==
    { Request(m, p, q, <<>>, <<>>) : m \in Methods, p \in Paths, q \in Queries }
    \cup { Request("POST", ChatPath, <<>>, hs, <<>>) : hs \in HeaderLists }
    \cup { Request("POST", ChatPath, <<>>, <<>>, b) : b \in Bodies }

UpstreamStatuses == {OK, NOT_FOUND, INTERNAL_SERVER_ERROR}

UpstreamHeaderPool ==
    { Hdr("set-cookie", <<97>>), Hdr("set-cookie", <<98>>),
      Hdr("content-length", <<49>>), Hdr("transfer-encoding", <<99>>) }

UpstreamHeaderLists == SeqsUpTo(UpstreamHeaderPool, MaxRespHeaders)

UpstreamBodies == { <<S("ok")>>, <<P("{"), WS, P("}")>> }

NoResponse == Response(0, <<>>, <<>>)

Outbound(method, url, headers, body) ==
    [method |-> method, url |-> url, headers |-> headers, body |-> body]
NoOutbound == Outbound("", <<>>, <<>>, <<>>)

\* ================================================================== state
VARIABLES
    available_models,   \* AppState.available_models, fixed at startup
    pc,                 \* where the request in flight is
    req,                \* the inbound request
    path,               \* proxy_handler's path
    out,                \* the request built for the upstream
    up,                 \* the upstream's response, as far as it was read
    resp,               \* the response returned to the client
    err,                \* the ProxyError the handler returned, "" if none
    reads,              \* reads of the inbound body, this request
    calls,              \* upstream calls issued, this request
    sent                \* responses returned, this request

vars == <<available_models, pc, req, path, out, up, resp, err, reads, calls, sent>>

Init ==
    /\ available_models \in Registries
    /\ pc = "idle"
    /\ req = NoRequest
    /\ path = <<>>
    /\ out = NoOutbound
    /\ up = NoResponse
    /\ resp = NoResponse
    /\ err = ""
    /\ reads = 0
    /\ calls = 0
    /\ sent = 0

\* A request arrives.
Receive ==
    /\ pc = "idle"
    /\ req' \in Requests
    /\ pc' = "routing"
    /\ UNCHANGED <<available_models, path, out, up, resp, err, reads, calls, sent>>

\* The request is over and its state is dropped; the next one may arrive.
Finish ==
    /\ pc = "done"
    /\ pc' = "idle"
    /\ req' = NoRequest
    /\ path' = <<>>
    /\ out' = NoOutbound
    /\ up' = NoResponse
    /\ resp' = NoResponse
    /\ err' = ""
    /\ reads' = 0
    /\ calls' = 0
    /\ sent' = 0
    /\ UNCHANGED available_models

\* The handler returns r: the request is over.
Return(r, e) ==
    /\ resp' = r
    /\ err' = e
    /\ sent' = sent + 1
    /\ pc' = "done"

\* CorsLayer::permissive() answers every OPTIONS request itself.
CorsPreflight ==
    /\ pc = "routing"
    /\ req.method = "OPTIONS"
    /\ Return(Response(OK, <<>>, <<>>), "")
    /\ UNCHANGED <<available_models, req, path, out, up, reads, calls>>

\* The methods the router has a handler for: post(..) and get(..), and HEAD,
\* which a get route also serves.
routed(method) == method \in {"POST", "GET", "HEAD"}

MethodNotAllowed ==
    /\ pc = "routing"
    /\ req.method # "OPTIONS"
    /\ ~routed(req.method)
    /\ Return(Response(METHOD_NOT_ALLOWED, <<>>, <<>>), "")
    /\ UNCHANGED <<available_models, req, path, out, up, reads, calls>>

\* proxy_handler starts: path and method are taken, the body read begins.
Enter ==
    /\ pc = "routing"
    /\ req.method # "OPTIONS"
    /\ routed(req.method)
    /\ path' = trim_start(req.path)
    /\ pc' = "reading"
    /\ UNCHANGED <<available_models, req, out, up, resp, err, reads, calls, sent>>

\* to_bytes fails.
BodyReadFails ==
    /\ pc = "reading"
    /\ reads' = reads + 1
    /\ Return(into_response("BodyReadError"), "BodyReadError")
    /\ UNCHANGED <<available_models, req, path, out, up, calls>>

\* to_bytes succeeds; the handler runs to request_builder.send().
BuildRequest ==
    /\ pc = "reading"
    /\ reads' = reads + 1
    /\ out' = Outbound(reqwest_method(req.method),
                       openai_url(path, req.query),
                       request_builder(req.headers),
                       modified_body(req.body, available_models))
    /\ pc' = "built"
    /\ UNCHANGED <<available_models, req, path, up, resp, err, calls, sent>>

\* SendFails, were the call issued again after a failure: C9 fails with it.
SendFailsAndRetries ==
    /\ pc = "built"
    /\ calls' = calls + 1
    /\ UNCHANGED <<available_models, pc, req, path, out, up, resp, err, reads, sent>>

\* send() fails.
SendFails ==
    /\ pc = "built"
    /\ calls' = calls + 1
    /\ Return(into_response("RequestError"), "RequestError")
    /\ UNCHANGED <<available_models, req, path, out, up, reads>>

\* send() returns the head of a response that triggers the model-list fallback.
\* The builder and the inbound request were consumed by the call.
Fallback ==
    /\ pc = "built"
    /\ \E st \in UpstreamStatuses, hs \in UpstreamHeaderLists :
        /\ ends_with_models(path) /\ status_from_u16(st) = NOT_FOUND
        /\ up' = Response(st, hs, <<>>)
        /\ Return(return_configured_models(available_models), "")
    /\ calls' = calls + 1
    /\ req' = NoRequest
    /\ out' = NoOutbound
    /\ UNCHANGED <<available_models, path, reads>>

\* send() returns the head of any other response; its headers are copied and
\* the read of its body begins.
ResponseHead ==
    /\ pc = "built"
    /\ \E st \in UpstreamStatuses, hs \in UpstreamHeaderLists :
        /\ ~(ends_with_models(path) /\ status_from_u16(st) = NOT_FOUND)
        /\ up' = Response(st, hs, <<>>)
        /\ resp' = Response(status_from_u16(st), response_headers(hs), <<>>)
    /\ calls' = calls + 1
    /\ req' = NoRequest
    /\ out' = NoOutbound
    /\ pc' = "receiving"
    /\ UNCHANGED <<available_models, path, err, reads, sent>>

\* response.bytes() fails.
ResponseReadFails ==
    /\ pc = "receiving"
    /\ Return(into_response("ResponseError"), "ResponseError")
    /\ UNCHANGED <<available_models, req, path, out, up, reads, calls>>

\* response.bytes() succeeds: the response is built and returned.
PassThrough ==
    /\ pc = "receiving"
    /\ \E body \in UpstreamBodies :
        /\ up' = [up EXCEPT !.body = body]
        /\ Return([resp EXCEPT !.body = body], "")
    /\ UNCHANGED <<available_models, req, path, out, reads, calls>>

Next ==
    \/ Receive
    \/ CorsPreflight
    \/ MethodNotAllowed
    \/ Enter
    \/ BodyReadFails
    \/ BuildRequest
    \/ SendFails
    \/ Fallback
    \/ ResponseHead
    \/ ResponseReadFails
    \/ PassThrough
    \/ Finish

Spec == Init /\ [][Next]_vars

\* ================================================================= claims
\* An object's members as a function from key to value (the last value of a
\* key that occurs twice).
AsMap(kids) ==
    [k \in {kids[i].k : i \in 1..Len(kids)} |->
        kids[CHOOSE i \in 1..Len(kids) :
                kids[i].k = k /\ \A j \in (i + 1)..Len(kids) : kids[j].k # k].v]

Named(hs, n) == {i \in 1..Len(hs) : hs[i].name = n}

\* ---------------------------------------------------------------------- C1
\* The registry entries whose id is the body's string `model`, by position.
MatchesOf(inbound) ==
    IF "model" \in DOMAIN inbound /\ inbound["model"].t = "str"
    THEN {i \in 1..Len(available_models) : available_models[i].id = inbound["model"].s}
    ELSE {}

FirstOf(is) == CHOOSE i \in is : \A j \in is : i <= j

\* What C1 says the outbound object is, given the inbound one.
ExpectedObject(inbound) ==
    LET is == MatchesOf(inbound) IN
    IF is # {} /\ available_models[FirstOf(is)].enable_thinking
    THEN [k \in DOMAIN inbound \cup {"thinking", "reasoning_effort"} |->
            IF k = "thinking"
            THEN [t |-> "obj", s |-> "",
                  kids |-> << [k |-> "type", v |-> [t |-> "str", s |-> "enabled", kids |-> <<>>]] >>]
            ELSE IF k = "reasoning_effort"
            THEN [t |-> "str", s |-> available_models[FirstOf(is)].reasoning_effort,
                  kids |-> <<>>]
            ELSE inbound[k]]
    ELSE inbound

\* C1: a body that parses as a JSON object goes upstream as the same object
\* with `thinking` = {"type":"enabled"} and `reasoning_effort` = the effort of
\* the first registry entry whose id is the body's string `model`, when that
\* entry enables thinking (overwriting fields of those names), every other
\* field kept; and as the same object, field for field, in every other case.
C1_BodyMutation ==
    (pc = "built" /\ req.body # <<>> /\ from_slice(req.body).ok
        /\ is_object(from_slice(req.body).v))
    => LET upstream == from_slice(out.body) IN
       /\ upstream.ok
       /\ is_object(upstream.v)
       /\ AsMap(upstream.v.kids) = ExpectedObject(AsMap(from_slice(req.body).v.kids))

\* The id is declared twice, thinking enabled in the first entry only; the
\* body names it and already has both fields and another one.
C1_Witness ==
    /\ pc = "built"
    /\ available_models = << ModelInfo("m1", TRUE, "high"), ModelInfo("m1", FALSE, "medium") >>
    /\ LET inbound == from_slice(req.body) IN
       /\ inbound.ok /\ is_object(inbound.v)
       /\ DOMAIN AsMap(inbound.v.kids) = {"model", "thinking", "reasoning_effort", "stream"}
       /\ AsMap(inbound.v.kids)["model"].s = "m1"
       /\ AsMap(inbound.v.kids)["reasoning_effort"].s = "none"
    /\ AsMap(from_slice(out.body).v.kids)["reasoning_effort"].s = "high"

\* ---------------------------------------------------------------------- C2
\* C2: no header the client sent as host, authorization or content-length, in
\* any letter case, is in the upstream call, and the call has exactly one
\* Authorization header, `Bearer <configured key>`.
C2_HeaderFiltering ==
    pc = "built"
    => /\ \A i \in 1..Len(out.headers) :
            Lower(out.headers[i].name) \notin {"host", "content-length"}
       /\ Cardinality({i \in 1..Len(out.headers) :
                          Lower(out.headers[i].name) = "authorization"}) = 1
       /\ \A i \in 1..Len(out.headers) :
            Lower(out.headers[i].name) = "authorization"
            => out.headers[i].value = Bearer \o openai_api_key

\* The client sent an Authorization of its own, spelled in capitals, and a Host.
C2_Witness ==
    /\ pc = "built"
    /\ \E i \in 1..Len(req.headers) :
        /\ req.headers[i].name = "AUTHORIZATION"
        /\ req.headers[i].value # Bearer \o openai_api_key
    /\ \E i \in 1..Len(req.headers) : req.headers[i].name = "Host"

\* ---------------------------------------------------------------------- C3
\* C3: the upstream call's Content-Type is application/json and nothing else:
\* a Content-Type the client sent does not reach the upstream.
C3_ContentTypeOverride ==
    pc = "built"
    => /\ Cardinality(Named(out.headers, "content-type")) = 1
       /\ \A i \in Named(out.headers, "content-type") :
            out.headers[i].value = ApplicationJson

\* --------------------------------------------------------------------- C10
\* C10: a header whose value is not valid header text is dropped, and only it:
\* of every name that is not skipped, the upstream call has as many headers as
\* the client sent with a representable value (and the fixed Content-Type).
C10_UnrepresentableDropped ==
    pc = "built"
    => \A n \in {Lower(req.headers[i].name) : i \in 1..Len(req.headers)} :
         n \notin {"host", "authorization", "content-length"}
         => Cardinality(Named(out.headers, n))
              = Cardinality({i \in 1..Len(req.headers) :
                                /\ Lower(req.headers[i].name) = n
                                /\ to_str_ok(req.headers[i].value)})
                + (IF n = "content-type" THEN 1 ELSE 0)

\* ---------------------------------------------------------------------- C7
\* C7 as stated: an empty body, a body that is not JSON and a body that is a
\* JSON value other than an object go upstream byte for byte.
C7_ForwardedUntouched ==
    (pc = "built" /\ (req.body = <<>> \/ ~from_slice(req.body).ok
                        \/ ~is_object(from_slice(req.body).v)))
    => out.body = req.body

\* C7, amended: an empty body and a body that is not JSON go upstream byte
\* for byte; a body that is a JSON value other than an object goes upstream
\* re-serialised, as the same value in compact text.
C7_ForwardedOrReserialised ==
    pc = "built"
    => /\ (req.body = <<>> \/ ~from_slice(req.body).ok) => out.body = req.body
       /\ (req.body # <<>> /\ from_slice(req.body).ok /\ ~is_object(from_slice(req.body).v))
            => /\ from_slice(out.body).ok
               /\ from_slice(out.body).v = from_slice(req.body).v
               /\ \A i \in 1..Len(out.body) : out.body[i].k # "ws"

\* An array written with whitespace goes upstream without it.
C7_Witness ==
    /\ pc = "built"
    /\ req.body = <<P("["), N("1"), P(","), WS, S("m1"), P("]")>>
    /\ out.body = <<P("["), N("1"), P(","), S("m1"), P("]")>>

\* ---------------------------------------------------------------------- C8
\* C8 as stated: a failed read of the inbound body ends in a 4xx response.
C8_BodyReadClientError ==
    err = "BodyReadError" => (resp.status >= 400 /\ resp.status <= 499)

\* C8, amended: a failed read of the inbound body ends the request with one
\* response, of status 500; the body is read once and no upstream call is made.
C8_BodyReadServerError ==
    /\ reads <= 1
    /\ err = "BodyReadError"
        => (pc = "done" /\ resp.status = 500 /\ reads = 1 /\ calls = 0 /\ sent = 1)

C8_Witness == pc = "done" /\ err = "BodyReadError" /\ reads = 1

\* ---------------------------------------------------------------------- C9
\* C9: a request issues at most one upstream call; when the call fails to
\* send, or the read of its response body fails, the request is over with one
\* response, of status 502, and that one call.
C9_NoRetry ==
    /\ calls <= 1
    /\ sent <= 1
    /\ err \in {"RequestError", "ResponseError"}
        => (pc = "done" /\ resp.status = 502 /\ calls = 1 /\ sent = 1)

C9_Witness == pc = "done" /\ err = "ResponseError" /\ up.status = 200 /\ calls = 1

\* ---------------------------------------------------------------------- C6
\* C6: the upstream call has the inbound method when that is one of the seven
\* standard ones and POST otherwise, and no request ends in an error response
\* without an upstream call because of its method.
C6_MethodMapping ==
    /\ pc = "built"
        => out.method = (IF req.method \in {"GET", "POST", "PUT", "DELETE", "PATCH",
                                            "HEAD", "OPTIONS"}
                         THEN req.method ELSE "POST")
    /\ (pc = "done" /\ calls = 0 /\ err = "") => resp.status < 400

\* ---------------------------------------------------------------------- C4
\* C4: a 404 from the upstream on a path ending in /models is answered with
\* 200, Content-Type application/json and {"object":"list","data":[..]}, data
\* holding one entry per registry entry, in order, each with the five fields;
\* nothing of the upstream's response is in it.
C4_ModelListFallback ==
    (pc = "done" /\ err = "" /\ calls = 1
        /\ Len(path) >= 2 /\ path[Len(path)] = "models" /\ path[Len(path) - 1] = "/"
        /\ up.status = 404)
    => /\ resp.status = 200
       /\ resp.headers = << Hdr("content-type", ApplicationJson) >>
       /\ LET body == from_slice(resp.body) IN
          /\ body.ok /\ is_object(body.v)
          /\ DOMAIN AsMap(body.v.kids) = {"object", "data"}
          /\ AsMap(body.v.kids)["object"] = [t |-> "str", s |-> "list", kids |-> <<>>]
          /\ LET data == AsMap(body.v.kids)["data"] IN
             /\ data.t = "arr"
             /\ Len(data.kids) = Len(available_models)
             /\ \A i \in 1..Len(data.kids) :
                  LET e == AsMap(data.kids[i].v.kids)
                      m == available_models[i]
                  IN  /\ data.kids[i].v.t = "obj"
                      /\ DOMAIN e = {"id", "object", "owned_by", "enable_thinking",
                                     "reasoning_effort"}
                      /\ e["id"] = [t |-> "str", s |-> m.id, kids |-> <<>>]
                      /\ e["object"] = [t |-> "str", s |-> m.object, kids |-> <<>>]
                      /\ e["owned_by"] = [t |-> "str", s |-> m.owned_by, kids |-> <<>>]
                      /\ e["enable_thinking"] =
                           [t |-> "lit", s |-> IF m.enable_thinking THEN "true" ELSE "false",
                            kids |-> <<>>]
                      /\ e["reasoning_effort"] =
                           [t |-> "str", s |-> m.reasoning_effort, kids |-> <<>>]

\* A 404 with headers of its own, on /v3/models, with two entries of different
\* ids declared.
C4_Witness ==
    /\ pc = "done"
    /\ path = <<"v3", "/", "models">>
    /\ up.status = 404
    /\ up.headers # <<>>
    /\ Len(available_models) = 2
    /\ available_models[1].id # available_models[2].id
    /\ resp.status = 200

\* ---------------------------------------------------------------------- C5
\* C5: a response that does not trigger the fallback reaches the client with
\* the upstream's status and body and with each of the upstream's headers
\* other than content-length and transfer-encoding, as often as it was sent.
C5_PassThrough ==
    (pc = "done" /\ err = "" /\ calls = 1
        /\ ~(Len(path) >= 2 /\ path[Len(path)] = "models" /\ path[Len(path) - 1] = "/"
              /\ up.status = 404))
    => /\ resp.status = up.status
       /\ resp.body = up.body
       /\ \A h \in {up.headers[i] : i \in 1..Len(up.headers)}
                     \cup {resp.headers[i] : i \in 1..Len(resp.headers)} :
            Cardinality({i \in 1..Len(resp.headers) : resp.headers[i] = h})
              = IF h.name \in {"content-length", "transfer-encoding"} THEN 0
                ELSE Cardinality({i \in 1..Len(up.headers) : up.headers[i] = h})

====
